---- MODULE Spec2Model ----
(***************************************************************************)
(* The dashboard component of src/frontend/src/App.js as a state machine:  *)
(* the React state of App, the 5 s poller, the requests in flight to the   *)
(* fleet service, and one action per handler or continuation of a handler. *)
(***************************************************************************)
EXTENDS Integers, Sequences, FiniteSets, TLC

(***************************************************************************)
(* Values.                                                                 *)
(***************************************************************************)
\* JS null, for the string-valued slots (error, a device's server id).
null == "<null>"
\* An absent/null object-valued field is <<>>, a present one is <<value>>.
None == <<>>
Some(x) == <<x>>

DeviceIds == {"dev1", "dev2"}
ServerIds == {"srv1", "srv2"}
\* What a device record's server field may hold: a server id, null, or "".
ServerRefs == ServerIds \cup {null, ""}

\* Bounds of the model.
MaxDevices == 2
MaxInFlight == 2

\* JS truthiness of a string-or-null value, as in `if (serverId)`.
Truthy(s) == s # null /\ s # ""

\* A JS object is an insertion-ordered mapping: a sequence of entries with
\* distinct ids.
Keys(entries) == {entries[i].id : i \in DOMAIN entries}
Lookup(entries, id) == entries[CHOOSE i \in DOMAIN entries : entries[i].id = id]

Device(id, server, sim, st) ==
    [id |-> id, server |-> server, is_simulator |-> sim, status |-> st]
Server(id, count) == [id |-> id, device_count |-> count, max_devices |-> 5]
Task(dev, name) == [id |-> dev \o "_" \o name, device_id |-> dev, task_name |-> name]

\* GET /status bodies the fleet service moves between in the main specification.
SnapA == [status |-> "not_initialized", devices |-> None, servers |-> None, tasks |-> None]
SnapB ==
    [status |-> "running",
     devices |-> Some(<<Device("dev1", "srv1", FALSE, "ready"),
                        Device("dev2", "srv1", TRUE, "ready")>>),
     servers |-> Some(<<Server("srv1", 2)>>),
     tasks |-> Some(<<Task("dev1", "setup_device")>>)]
\* The service before initialization, its configured device and task listed.
SnapD ==
    [status |-> "not_initialized",
     devices |-> Some(<<Device("dev1", "srv1", FALSE, "ready")>>),
     servers |-> Some(<<Server("srv1", 1)>>),
     tasks |-> Some(<<Task("dev1", "setup_device")>>)]
SnapC ==
    [status |-> "running",
     devices |-> Some(<<Device("dev2", "srv2", FALSE, "initializing")>>),
     servers |-> Some(<<Server("srv1", 0)>>),
     tasks |-> Some(<<>>)]
Snapshots == {SnapA, SnapB, SnapC}

\* Every device mapping of at most MaxDevices entries, in every insertion order.
DeviceLists ==
    LET recs == {Device(d, s, b, "ready") : d \in DeviceIds, s \in ServerRefs, b \in BOOLEAN}
    IN  {l \in UNION {[1..n -> recs] : n \in 0..MaxDevices} :
            \A i, j \in DOMAIN l : i # j => l[i].id # l[j].id}
ServerLists ==
    {l \in UNION {[1..n -> {Server(s, c) : s \in ServerIds, c \in 0..MaxDevices}] :
                    n \in 0..Cardinality(ServerIds)} :
        \A i, j \in DOMAIN l : i # j => l[i].id # l[j].id}
AllSnapshots ==
    {[status |-> st, devices |-> Some(d), servers |-> Some(s), tasks |-> Some(<<>>)] :
        st \in {"not_initialized", "running"}, d \in DeviceLists, s \in ServerLists}

(***************************************************************************)
(* The view functions and the snapshot handler's pure part.                *)
(***************************************************************************)
\* `x || {}`
OrEmpty(opt) == IF opt = None THEN <<>> ELSE opt[1]

\* PushDevice, were a bucket assigned the device instead of being pushed on.
PushDevice_Overwrite(acc, dev) ==
    IF Truthy(dev.server)
    THEN [s \in DOMAIN acc \cup {dev.server} |->
             IF s = dev.server THEN <<dev.id>> ELSE acc[s]]
    ELSE acc

\* One iteration of the forEach of fetchStatus: push deviceId on its server's
\* bucket, creating the bucket first; a falsy server id is skipped.
PushDevice(acc, dev) ==
    IF Truthy(dev.server)
    THEN IF dev.server \in DOMAIN acc
         THEN [acc EXCEPT ![dev.server] = Append(@, dev.id)]
         ELSE [s \in DOMAIN acc \cup {dev.server} |->
                  IF s = dev.server THEN <<dev.id>> ELSE acc[s]]
    ELSE acc

RECURSIVE GroupFrom(_, _)
GroupFrom(devs, acc) ==
    IF devs = <<>> THEN acc ELSE GroupFrom(Tail(devs), PushDevice(acc, Head(devs)))

\* tempServerDevices: server id -> list of device ids, from the response alone.
EmptyObject == [s \in {} |-> <<>>]
GroupDevicesByServer(devs) == GroupFrom(devs, EmptyObject)

RECURSIVE SelectSeq2(_, _)
SelectSeq2(s, keep) ==
    IF s = <<>> THEN <<>>
    ELSE IF Head(s) \in keep THEN <<Head(s)>> \o SelectSeq2(Tail(s), keep)
         ELSE SelectSeq2(Tail(s), keep)

\* getFilteredDevices, were the test on is_simulator the wrong way round.
getFilteredDevices_Inverted(devs, onlyReal) ==
    IF ~onlyReal THEN devs
    ELSE SelectSeq2(devs, {devs[i] : i \in {j \in DOMAIN devs : devs[j].is_simulator}})

\* getFilteredDevices (lines 43-57)
getFilteredDevices(devs, onlyReal) ==
    IF ~onlyReal THEN devs
    ELSE SelectSeq2(devs, {devs[i] : i \in {j \in DOMAIN devs : ~devs[j].is_simulator}})

\* `{id: deviceId, ...devices[deviceId]}`: the id alone, its other fields
\* undefined (falsy), when the store has no such device.
DeviceObject(devs, id) ==
    IF id \in Keys(devs) THEN Lookup(devs, id)
    ELSE [id |-> id, server |-> null, is_simulator |-> FALSE, status |-> null]

RECURSIVE FilterReal(_)
\* `.filter(device => !device.is_simulator)`
FilterReal(list) ==
    IF list = <<>> THEN <<>>
    ELSE IF ~Head(list).is_simulator THEN <<Head(list)>> \o FilterReal(Tail(list))
         ELSE FilterReal(Tail(list))

\* getDevicesForServer, were the filter left out.
getDevicesForServer_Unfiltered(srvDevs, devs, onlyReal, serverId) ==
    LET deviceIds == IF serverId \in DOMAIN srvDevs THEN srvDevs[serverId] ELSE <<>>
    IN  [k \in DOMAIN deviceIds |-> DeviceObject(devs, deviceIds[k])]

\* getDevicesForServer (lines 79-92), of the store's serverDevices and devices
\* and of the toggle.
getDevicesForServer(srvDevs, devs, onlyReal, serverId) ==
    LET deviceIds == IF serverId \in DOMAIN srvDevs THEN srvDevs[serverId] ELSE <<>>
        devicesList == [k \in DOMAIN deviceIds |-> DeviceObject(devs, deviceIds[k])]
    IN  IF ~onlyReal THEN devicesList ELSE FilterReal(devicesList)

\* DeviceCountBadge, were the two branches of its conditional exchanged.
DeviceCountBadge_Swapped(srvDevs, devs, onlyReal, serverInfo) ==
    LET serverDevicesList == getDevicesForServer(srvDevs, devs, onlyReal, serverInfo.id)
        realDeviceCount == Len(FilterReal(serverDevicesList))
    IN  IF ~onlyReal THEN realDeviceCount ELSE serverInfo.device_count

\* The number before the slash in the Devices row of a server card
\* (lines 461-484).
DeviceCountBadge(srvDevs, devs, onlyReal, serverInfo) ==
    LET serverDevicesList == getDevicesForServer(srvDevs, devs, onlyReal, serverInfo.id)
        realDeviceCount == Len(FilterReal(serverDevicesList))
    IN  IF onlyReal THEN realDeviceCount ELSE serverInfo.device_count

(***************************************************************************)
(* State.                                                                  *)
(***************************************************************************)
VARIABLES
    lifecycle,            \* "created" (rendered, effect not yet run), "mounted", "unmounted"
    status, devices, servers, serverDevices, tasks,      \* the snapshot state
    expandedServers, showOnlyRealDevices,                \* UI toggles
    newDevice, newServer, isAddingDevice, isAddingServer, \* the two add-forms
    error, taskResult,                                   \* the two slots
    remote,               \* what the fleet service would answer to GET /status now
    inflight,             \* requests awaiting their response, in issue order
    lastEvent             \* history: what the last handler that ran did

snapVars == <<status, devices, servers, serverDevices, tasks>>
uiVars == <<expandedServers, showOnlyRealDevices>>
formVars == <<newDevice, newServer, isAddingDevice, isAddingServer>>
slotVars == <<error, taskResult>>
vars == <<lifecycle, snapVars, uiVars, formVars, slotVars, remote, inflight, lastEvent>>

DefaultDevice ==
    [name |-> "", udid |-> "", platformName |-> "iOS", platformVersion |-> "",
     deviceName |-> "", automationName |-> "XCUITest"]
DefaultServer ==
    [name |-> "", host |-> "127.0.0.1", port |-> <<>>, max_devices |-> <<"5">>]

\* The snapshot part of the store as one value.
StoreView ==
    [status |-> status, devices |-> devices, servers |-> servers,
     serverDevices |-> serverDevices, tasks |-> tasks]
InitialView ==
    [status |-> "loading", devices |-> <<>>, servers |-> <<>>,
     serverDevices |-> EmptyObject, tasks |-> <<>>]

\* The history record of one handler run.
Event(type, cmd, dev, ok) ==
    [type |-> type, cmd |-> cmd, dev |-> dev, ok |-> ok,
     prev |-> {}, late |-> FALSE, wrote |-> None]

\* The useState initial values (lines 10-35), nothing requested yet.
Constructed ==
    /\ lifecycle = "created"
    /\ status = "loading"
    /\ devices = <<>>
    /\ servers = <<>>
    /\ serverDevices = EmptyObject
    /\ tasks = <<>>
    /\ expandedServers = {}
    /\ showOnlyRealDevices = TRUE
    /\ newDevice = DefaultDevice
    /\ newServer = DefaultServer
    /\ isAddingDevice = FALSE
    /\ isAddingServer = FALSE
    /\ error = null
    /\ taskResult = None
    /\ inflight = <<>>
    /\ lastEvent = Event("init", "", null, TRUE)

Init == Constructed /\ remote = SnapA

(***************************************************************************)
(* Requests.                                                               *)
(***************************************************************************)
GetStatus == "GET /status"
\* A request awaiting its response: who awaits it (owner: "poll" or the
\* command), the command's device, the body sent, the response once the
\* service has answered (GET only), whether a later-issued GET has already
\* been applied (late), and the task result its command has written (wrote).
Request(kind, owner, dev, body) ==
    [kind |-> kind, owner |-> owner, dev |-> dev, body |-> body,
     resp |-> None, late |-> FALSE, wrote |-> None]
StatusRequest(owner, dev) == Request(GetStatus, owner, dev, None)

NumGets(reqs) == Cardinality({i \in DOMAIN reqs : reqs[i].kind = GetStatus})
Without(reqs, i) == SubSeq(reqs, 1, i - 1) \o SubSeq(reqs, i + 1, Len(reqs))
\* Removing request i because its GET response is being applied marks every
\* GET issued before it as overtaken.
Overtake(reqs, i) ==
    Without([j \in DOMAIN reqs |->
                IF j < i /\ reqs[j].kind = GetStatus
                THEN [reqs[j] EXCEPT !.late = TRUE] ELSE reqs[j]], i)

\* How a request fails: err.message, and err.response?.data?.error (null when
\* there was no response or no error field in it).
Failures ==
    {[message |-> "Network Error", error |-> null],
     [message |-> "Request failed with status code 500", error |-> "server error"]}
\* err.response?.data?.error || err.message
ErrorOrMessage(f) == IF Truthy(f.error) THEN f.error ELSE f.message

\* SetState, were an update of an unmounted component applied all the same.
SetState_AfterUnmount(cur, new) == new

\* A state setter of useState: React drops the update of a component that is
\* not mounted any more.
SetState(cur, new) == IF lifecycle = "unmounted" THEN cur ELSE new

(***************************************************************************)
(* The poller and fetchStatus.                                             *)
(***************************************************************************)
\* ApplySnapshot, were the response's devices merged into the stored ones.
ApplySnapshot_Merge(old, data) ==
    LET new == OrEmpty(data.devices)
        merged == new \o SelectSeq2(old.devices,
                                    {old.devices[k] : k \in {j \in DOMAIN old.devices :
                                        old.devices[j].id \notin Keys(new)}})
    IN  [status |-> data.status,
         devices |-> merged,
         servers |-> OrEmpty(data.servers),
         tasks |-> OrEmpty(data.tasks),
         serverDevices |-> GroupDevicesByServer(merged)]

\* The try block of fetchStatus after the await: the store's next snapshot
\* state, given the current one and the response body.
ApplySnapshot(old, data) ==
    [status |-> data.status,
     devices |-> OrEmpty(data.devices),
     servers |-> OrEmpty(data.servers),
     tasks |-> OrEmpty(data.tasks),
     serverDevices |-> GroupDevicesByServer(OrEmpty(data.devices))]

\* StoreSnapshot, were the call of setStatus missing.
StoreSnapshot_NoStatus(v) ==
    /\ status' = status
    /\ devices' = SetState(devices, v.devices)
    /\ servers' = SetState(servers, v.servers)
    /\ tasks' = SetState(tasks, v.tasks)
    /\ serverDevices' = SetState(serverDevices, v.serverDevices)

\* StoreSnapshot, were the call of setServerDevices missing.
StoreSnapshot_StaleGrouping(v) ==
    /\ status' = SetState(status, v.status)
    /\ devices' = SetState(devices, v.devices)
    /\ servers' = SetState(servers, v.servers)
    /\ tasks' = SetState(tasks, v.tasks)
    /\ serverDevices' = serverDevices

\* The setters of the try block, each through React.
StoreSnapshot(v) ==
    /\ status' = SetState(status, v.status)
    /\ devices' = SetState(devices, v.devices)
    /\ servers' = SetState(servers, v.servers)
    /\ tasks' = SetState(tasks, v.tasks)
    /\ serverDevices' = SetState(serverDevices, v.serverDevices)

\* useEffect(..., []): the first fetch and the start of the 5 s timer.
Mount ==
    /\ lifecycle = "created"
    /\ lifecycle' = "mounted"
    /\ inflight' = Append(inflight, StatusRequest("poll", null))
    /\ lastEvent' = Event("mount", "poll", null, TRUE)
    /\ UNCHANGED <<snapVars, uiVars, formVars, slotVars, remote>>

\* The effect's cleanup: clearInterval.
Unmount ==
    /\ lifecycle = "mounted"
    /\ lifecycle' = "unmounted"
    /\ lastEvent' = Event("unmount", "", null, TRUE)
    /\ UNCHANGED <<snapVars, uiVars, formVars, slotVars, remote, inflight>>

\* Tick, were the timer's callback not to call fetchStatus.
Tick_Idle ==
    /\ lifecycle = "mounted"
    /\ lastEvent' = Event("tick", "poll", null, TRUE)
    /\ UNCHANGED <<lifecycle, snapVars, uiVars, formVars, slotVars, remote, inflight>>

\* Tick, were the effect's cleanup not to clear the interval.
Tick_AfterTeardown ==
    /\ lifecycle \in {"mounted", "unmounted"}
    /\ Len(inflight) < MaxInFlight
    /\ inflight' = Append(inflight, StatusRequest("poll", null))
    /\ lastEvent' = Event("tick", "poll", null, TRUE)
    /\ UNCHANGED <<lifecycle, snapVars, uiVars, formVars, slotVars, remote>>

\* The timer fires: fetchStatus() up to its await.
Tick ==
    /\ lifecycle = "mounted"
    /\ Len(inflight) < MaxInFlight
    /\ inflight' = Append(inflight, StatusRequest("poll", null))
    /\ lastEvent' = Event("tick", "poll", null, TRUE)
    /\ UNCHANGED <<lifecycle, snapVars, uiVars, formVars, slotVars, remote>>

\* The fleet service changes state on its own account.
RemoteChange(s) ==
    /\ s # remote
    /\ remote' = s
    /\ lastEvent' = Event("remoteChange", "", null, TRUE)
    /\ UNCHANGED <<lifecycle, snapVars, uiVars, formVars, slotVars, inflight>>

\* The fleet service answers a GET /status with its state of that moment.
ServerReply(i) ==
    /\ inflight[i].kind = GetStatus
    /\ inflight[i].resp = None
    /\ inflight' = [inflight EXCEPT ![i].resp = Some(remote)]
    /\ lastEvent' = Event("serverReply", inflight[i].owner, inflight[i].dev, TRUE)
    /\ UNCHANGED <<lifecycle, snapVars, uiVars, formVars, slotVars, remote>>

\* FetchStatusOk, were the response of an overtaken request discarded.
FetchStatusOk_InIssueOrder(i) ==
    /\ inflight[i].kind = GetStatus
    /\ inflight[i].resp # None
    /\ IF inflight[i].late
       THEN UNCHANGED <<snapVars, error>>
       ELSE /\ StoreSnapshot(ApplySnapshot(StoreView, inflight[i].resp[1]))
            /\ error' = SetState(error, null)
    /\ inflight' = Overtake(inflight, i)
    /\ lastEvent' = [Event("fetchOk", inflight[i].owner, inflight[i].dev, TRUE)
                        EXCEPT !.prev = Keys(devices), !.late = inflight[i].late,
                               !.wrote = inflight[i].wrote]
    /\ UNCHANGED <<lifecycle, uiVars, formVars, taskResult, remote>>

\* FetchStatusOk, were the try block not to end with setError(null).
FetchStatusOk_KeepsError(i) ==
    /\ inflight[i].kind = GetStatus
    /\ inflight[i].resp # None
    /\ StoreSnapshot(ApplySnapshot(StoreView, inflight[i].resp[1]))
    /\ error' = error
    /\ inflight' = Overtake(inflight, i)
    /\ lastEvent' = [Event("fetchOk", inflight[i].owner, inflight[i].dev, TRUE)
                        EXCEPT !.prev = Keys(devices), !.late = inflight[i].late,
                               !.wrote = inflight[i].wrote]
    /\ UNCHANGED <<lifecycle, uiVars, formVars, taskResult, remote>>

\* FetchStatusOk, were a refresh to collapse the server cards.
FetchStatusOk_CollapsesServers(i) ==
    /\ inflight[i].kind = GetStatus
    /\ inflight[i].resp # None
    /\ StoreSnapshot(ApplySnapshot(StoreView, inflight[i].resp[1]))
    /\ error' = SetState(error, null)
    /\ expandedServers' = SetState(expandedServers, {})
    /\ inflight' = Overtake(inflight, i)
    /\ lastEvent' = [Event("fetchOk", inflight[i].owner, inflight[i].dev, TRUE)
                        EXCEPT !.prev = Keys(devices), !.late = inflight[i].late,
                               !.wrote = inflight[i].wrote]
    /\ UNCHANGED <<lifecycle, showOnlyRealDevices, formVars, taskResult, remote>>

\* fetchStatus after its await, the request having succeeded (lines 99-120).
\* It is the last statement of whichever command awaits it.
FetchStatusOk(i) ==
    /\ inflight[i].kind = GetStatus
    /\ inflight[i].resp # None
    /\ StoreSnapshot(ApplySnapshot(StoreView, inflight[i].resp[1]))
    /\ error' = SetState(error, null)
    /\ inflight' = Overtake(inflight, i)
    /\ lastEvent' = [Event("fetchOk", inflight[i].owner, inflight[i].dev, TRUE)
                        EXCEPT !.prev = Keys(devices), !.late = inflight[i].late,
                               !.wrote = inflight[i].wrote]
    /\ UNCHANGED <<lifecycle, uiVars, formVars, taskResult, remote>>

\* FetchStatusFail, were the catch block to log the error only.
FetchStatusFail_Silent(i, f) ==
    /\ inflight[i].kind = GetStatus
    /\ error' = error
    /\ inflight' = Without(inflight, i)
    /\ lastEvent' = [Event("fetchFail", inflight[i].owner, inflight[i].dev, FALSE)
                        EXCEPT !.late = inflight[i].late, !.wrote = inflight[i].wrote]
    /\ UNCHANGED <<lifecycle, snapVars, uiVars, formVars, taskResult, remote>>

\* FetchStatusFail, were the catch block to call fetchStatus again.
FetchStatusFail_Retry(i, f) ==
    /\ inflight[i].kind = GetStatus
    /\ error' = SetState(error, "Error fetching status: " \o f.message)
    /\ inflight' = Append(Without(inflight, i), StatusRequest(inflight[i].owner, inflight[i].dev))
    /\ lastEvent' = [Event("fetchFail", inflight[i].owner, inflight[i].dev, FALSE)
                        EXCEPT !.late = inflight[i].late, !.wrote = inflight[i].wrote]
    /\ UNCHANGED <<lifecycle, snapVars, uiVars, formVars, taskResult, remote>>

\* fetchStatus after its await, the request having failed (the catch).
FetchStatusFail(i, f) ==
    /\ inflight[i].kind = GetStatus
    /\ error' = SetState(error, "Error fetching status: " \o f.message)
    /\ inflight' = Without(inflight, i)
    /\ lastEvent' = [Event("fetchFail", inflight[i].owner, inflight[i].dev, FALSE)
                        EXCEPT !.late = inflight[i].late, !.wrote = inflight[i].wrote]
    /\ UNCHANGED <<lifecycle, snapVars, uiVars, formVars, taskResult, remote>>

(***************************************************************************)
(* The commands.  A command is an async function: the click runs it up to  *)
(* its await of the POST; the POST's outcome runs the rest, which on the   *)
(* success path ends in `await fetchStatus()`.                             *)
(***************************************************************************)
\* The continuation's fetchStatus(): the answered POST leaves, a GET enters.
Refetch(i, wrote) ==
    Append(Without(inflight, i),
           [StatusRequest(inflight[i].owner, inflight[i].dev) EXCEPT !.wrote = wrote])

\* Response bodies of the endpoints whose body the handler reads.
RefreshBodies ==
    {[success |-> TRUE, message |-> "Devices refreshed", error |-> null, count |-> 2],
     [success |-> FALSE, message |-> "Refresh failed", error |-> null, count |-> 0],
     [success |-> FALSE, message |-> null, error |-> "scan failed", count |-> 0]}
SetupBodies ==
    {[success |-> TRUE, message |-> "Setup started", error |-> null, count |-> 0],
     [success |-> FALSE, message |-> null, error |-> "device busy", count |-> 0],
     [success |-> FALSE, message |-> null, error |-> null, count |-> 0]}

\* `a || b` on strings
Or(a, b) == IF Truthy(a) THEN a ELSE b

\* A device card is on screen: the add-device form is closed and the device
\* passes the filter (lines 552, 627-643).
DeviceCardShown(d) ==
    /\ lifecycle = "mounted"
    /\ ~isAddingDevice
    /\ d \in Keys(getFilteredDevices(devices, showOnlyRealDevices))

\* ---- initializeSystem -------------------------------------------------
\* initializeSystem, were its button rendered before the first snapshot too.
initializeSystem_WhileLoading ==
    /\ lifecycle = "mounted"
    /\ status \in {"loading", "not_initialized"}
    /\ Len(inflight) < MaxInFlight
    /\ status' = SetState(status, "initializing")
    /\ inflight' = Append(inflight, Request("POST /initialize", "initializeSystem", null, None))
    /\ lastEvent' = Event("click", "initializeSystem", null, TRUE)
    /\ UNCHANGED <<lifecycle, devices, servers, serverDevices, tasks, uiVars, formVars,
                   slotVars, remote>>

\* The button is rendered while status === 'not_initialized' (lines 714-721).
initializeSystem ==
    /\ lifecycle = "mounted"
    /\ status = "not_initialized"
    /\ Len(inflight) < MaxInFlight
    /\ status' = SetState(status, "initializing")
    /\ inflight' = Append(inflight, Request("POST /initialize", "initializeSystem", null, None))
    /\ lastEvent' = Event("click", "initializeSystem", null, TRUE)
    /\ UNCHANGED <<lifecycle, devices, servers, serverDevices, tasks, uiVars, formVars,
                   slotVars, remote>>

\* ---- initializeDevice, stopTask --------------------------------------
initializeDevice(d) ==
    /\ DeviceCardShown(d)
    /\ Lookup(devices, d).status # "initializing"
    /\ Len(inflight) < MaxInFlight
    /\ inflight' = Append(inflight,
                          Request("POST /devices/{id}/initialize", "initializeDevice", d, None))
    /\ lastEvent' = Event("click", "initializeDevice", d, TRUE)
    /\ UNCHANGED <<lifecycle, snapVars, uiVars, formVars, slotVars, remote>>

\* The Stop Task button of a task card (lines 658-678).
stopTask(t) ==
    /\ lifecycle = "mounted"
    /\ t \in DOMAIN tasks
    /\ Len(inflight) < MaxInFlight
    /\ inflight' = Append(inflight,
                          Request("POST /devices/{id}/task/{taskName}/stop", "stopTask",
                                  tasks[t].device_id, None))
    /\ lastEvent' = Event("click", "stopTask", tasks[t].device_id, TRUE)
    /\ UNCHANGED <<lifecycle, snapVars, uiVars, formVars, slotVars, remote>>

\* The POST of initializeSystem, initializeDevice or stopTask succeeded: the
\* next statement is `await fetchStatus()`.
PlainCommands == {"initializeSystem", "initializeDevice", "stopTask"}
PlainCommandOk(i) ==
    /\ inflight[i].owner \in PlainCommands
    /\ inflight[i].kind # GetStatus
    /\ inflight' = Refetch(i, None)
    /\ lastEvent' = Event("postOk", inflight[i].owner, inflight[i].dev, TRUE)
    /\ UNCHANGED <<lifecycle, snapVars, uiVars, formVars, slotVars, remote>>

\* The catch blocks: the message each command puts in the error slot.
CatchMessage(owner, dev, f) ==
    CASE owner = "initializeSystem" -> "Error initializing system: " \o f.message
      [] owner = "initializeDevice" -> "Error initializing device: " \o f.message
      [] owner = "refreshDevices" -> "Error refreshing devices: " \o ErrorOrMessage(f)
      [] owner = "addDevice" -> "Error adding device: " \o ErrorOrMessage(f)
      [] owner = "addServer" -> "Error adding server: " \o ErrorOrMessage(f)
      [] owner = "stopTask" -> "Error stopping task: " \o ErrorOrMessage(f)
      [] owner = "executeSetupDeviceTask" ->
            "Error executing setup task for " \o dev \o ": " \o ErrorOrMessage(f)

\* CatchRequests, were the re-fetch in a finally block.
CatchRequests_Refetch(i) == Refetch(i, None)

\* The requests in flight after a catch block: the failed POST has left, and
\* the block issues nothing.
CatchRequests(i) == Without(inflight, i)

\* CommandFail, were the catch block of initializeSystem to put the status back.
CommandFail_Rollback(i, f) ==
    /\ inflight[i].kind # GetStatus
    /\ inflight[i].owner # "executeSetupDeviceTask"
    /\ error' = SetState(error, CatchMessage(inflight[i].owner, inflight[i].dev, f))
    /\ status' = IF inflight[i].owner = "initializeSystem"
                 THEN SetState(status, "not_initialized") ELSE status
    /\ inflight' = CatchRequests(i)
    /\ lastEvent' = Event("postFail", inflight[i].owner, inflight[i].dev, FALSE)
    /\ UNCHANGED <<lifecycle, devices, servers, serverDevices, tasks, uiVars, formVars,
                   taskResult, remote>>

\* The POST of a command other than the setup task failed: its catch block.
CommandFail(i, f) ==
    /\ inflight[i].kind # GetStatus
    /\ inflight[i].owner # "executeSetupDeviceTask"
    /\ error' = SetState(error, CatchMessage(inflight[i].owner, inflight[i].dev, f))
    /\ inflight' = CatchRequests(i)
    /\ lastEvent' = Event("postFail", inflight[i].owner, inflight[i].dev, FALSE)
    /\ UNCHANGED <<lifecycle, snapVars, uiVars, formVars, taskResult, remote>>

\* ---- refreshDevices ---------------------------------------------------
refreshDevices ==
    /\ lifecycle = "mounted"
    /\ Len(inflight) < MaxInFlight
    /\ error' = SetState(error, null)
    /\ inflight' = Append(inflight, Request("POST /refresh", "refreshDevices", null, None))
    /\ lastEvent' = Event("click", "refreshDevices", null, TRUE)
    /\ UNCHANGED <<lifecycle, snapVars, uiVars, formVars, taskResult, remote>>

RefreshMessage(data) ==
    IF data.success
    THEN data.message \o " (" \o ToString(data.count) \o " devices detected)"
    ELSE "Error refreshing devices: " \o Or(data.error, data.message)

refreshDevicesOk(i, data) ==
    /\ inflight[i].owner = "refreshDevices"
    /\ inflight[i].kind # GetStatus
    /\ error' = SetState(error, RefreshMessage(data))
    /\ inflight' = IF data.success THEN Refetch(i, None) ELSE Without(inflight, i)
    /\ lastEvent' = Event("postOk", "refreshDevices", null, data.success)
    /\ UNCHANGED <<lifecycle, snapVars, uiVars, formVars, taskResult, remote>>

\* ---- executeSetupDeviceTask ------------------------------------------
\* The Setup Device button is enabled while device.status === 'ready'.
executeSetupDeviceTask(d) ==
    /\ DeviceCardShown(d)
    /\ Lookup(devices, d).status = "ready"
    /\ Len(inflight) < MaxInFlight
    /\ taskResult' = SetState(taskResult, None)
    /\ error' = SetState(error, null)
    /\ inflight' = Append(inflight,
                          Request("POST /devices/{id}/setup", "executeSetupDeviceTask", d, None))
    /\ lastEvent' = Event("click", "executeSetupDeviceTask", d, TRUE)
    /\ UNCHANGED <<lifecycle, snapVars, uiVars, formVars, remote>>

SetupRecord(d, result) == [device |-> d, task |-> "setup_device", result |-> result]

\* executeSetupDeviceTaskOk, were a success=false answer shown as a task
\* result only.
executeSetupDeviceTaskOk_NoBanner(i, data) ==
    /\ inflight[i].owner = "executeSetupDeviceTask"
    /\ inflight[i].kind # GetStatus
    /\ taskResult' = SetState(taskResult, Some(SetupRecord(inflight[i].dev, data)))
    /\ error' = error
    /\ inflight' = Refetch(i, Some(SetupRecord(inflight[i].dev, data)))
    /\ lastEvent' = [Event("postOk", "executeSetupDeviceTask", inflight[i].dev, data.success)
                        EXCEPT !.wrote = Some(SetupRecord(inflight[i].dev, data))]
    /\ UNCHANGED <<lifecycle, snapVars, uiVars, formVars, remote>>

\* The POST of executeSetupDeviceTask was answered (lines 257-270).
executeSetupDeviceTaskOk(i, data) ==
    /\ inflight[i].owner = "executeSetupDeviceTask"
    /\ inflight[i].kind # GetStatus
    /\ taskResult' = SetState(taskResult, Some(SetupRecord(inflight[i].dev, data)))
    /\ error' = IF data.success THEN error
                ELSE SetState(error, "Error starting setup task for " \o inflight[i].dev
                                        \o ": " \o Or(data.error, "Unknown error"))
    /\ inflight' = Refetch(i, Some(SetupRecord(inflight[i].dev, data)))
    /\ lastEvent' = [Event("postOk", "executeSetupDeviceTask", inflight[i].dev, data.success)
                        EXCEPT !.wrote = Some(SetupRecord(inflight[i].dev, data))]
    /\ UNCHANGED <<lifecycle, snapVars, uiVars, formVars, remote>>

\* SetupCatchResult, were the catch block to set the error only.
SetupCatchResult_ErrorOnly(d, f) == taskResult

\* What the catch block of executeSetupDeviceTask leaves in the task-result slot.
SetupCatchResult(d, f) ==
    Some(SetupRecord(d, [success |-> FALSE, message |-> null,
                         error |-> Or(ErrorOrMessage(f), "Failed to execute setup task"),
                         count |-> 0]))

executeSetupDeviceTaskFail(i, f) ==
    /\ inflight[i].owner = "executeSetupDeviceTask"
    /\ inflight[i].kind # GetStatus
    /\ error' = SetState(error, CatchMessage("executeSetupDeviceTask", inflight[i].dev, f))
    /\ taskResult' = SetState(taskResult, SetupCatchResult(inflight[i].dev, f))
    /\ inflight' = Without(inflight, i)
    /\ lastEvent' = [Event("postFail", "executeSetupDeviceTask", inflight[i].dev, FALSE)
                        EXCEPT !.wrote = SetupCatchResult(inflight[i].dev, f)]
    /\ UNCHANGED <<lifecycle, snapVars, uiVars, formVars, remote>>

(***************************************************************************)
(* The add-device and add-server forms.                                    *)
(***************************************************************************)
\* What the user may type in a text input, and pick in the two selects.
TextValues == {"", "x"}
Platforms == {"iOS", "Android"}
Automations == {"XCUITest", "UiAutomator2"}
DeviceTextFields == {"name", "udid", "platformVersion", "deviceName"}

\* Keystrokes for an <input type="number">: texts of at most MaxTyped characters.
MaxTyped == 2
Chars == {"4", "x"}
Typed == UNION {[1..n -> Chars] : n \in 0..MaxTyped}

Digits == <<"0", "1", "2", "3", "4", "5", "6", "7", "8", "9">>
IsDigit(c) == \E k \in DOMAIN Digits : Digits[k] = c
DigitValue(c) == (CHOOSE k \in DOMAIN Digits : Digits[k] = c) - 1

\* parseInt(text, 10): the value of the longest prefix of digits, NaN (None)
\* when the text does not start with a digit.
RECURSIVE ParseDigits(_, _)
ParseDigits(text, acc) ==
    IF text = <<>> \/ ~IsDigit(Head(text)) THEN acc
    ELSE ParseDigits(Tail(text), 10 * acc + DigitValue(Head(text)))
ParseInt(text) ==
    IF text = <<>> \/ ~IsDigit(Head(text)) THEN None ELSE Some(ParseDigits(text, 0))

\* NumberInputValue, were the input of type "text": whatever was typed.
NumberInputValue_Text(text) == text

\* The value an <input type="number"> reports for what was typed: the text
\* when it is a number, "" otherwise (lines 432-451).
NumberInputValue(text) ==
    IF text # <<>> /\ \A k \in DOMAIN text : IsDigit(text[k]) THEN text ELSE <<>>

\* DeviceFormValid, were the name input not marked required.
DeviceFormValid_NameOptional(form) ==
    /\ form.udid # ""
    /\ form.platformName # ""
    /\ form.platformVersion # ""
    /\ form.deviceName # ""
    /\ form.automationName # ""

\* The `required` attributes of the add-device form (lines 555-625): the
\* browser raises no submit event while one of these is empty.
DeviceFormValid(form) ==
    /\ form.name # ""
    /\ form.udid # ""
    /\ form.platformName # ""
    /\ form.platformVersion # ""
    /\ form.deviceName # ""
    /\ form.automationName # ""

\* The `required` attributes of the add-server form (lines 407-453).
ServerFormValid(form) ==
    /\ form.name # ""
    /\ form.host # ""
    /\ form.port # <<>>
    /\ form.max_devices # <<>>

\* The Add Device / Cancel button (lines 540-548).
setIsAddingDevice(b) ==
    /\ lifecycle = "mounted"
    /\ isAddingDevice # b
    /\ isAddingDevice' = b
    /\ lastEvent' = Event("setIsAddingDevice", "", null, b)
    /\ UNCHANGED <<lifecycle, snapVars, uiVars, newDevice, newServer, isAddingServer,
                   slotVars, remote, inflight>>

\* The Add Server / Cancel button (lines 393-401).
setIsAddingServer(b) ==
    /\ lifecycle = "mounted"
    /\ isAddingServer # b
    /\ isAddingServer' = b
    /\ lastEvent' = Event("setIsAddingServer", "", null, b)
    /\ UNCHANGED <<lifecycle, snapVars, uiVars, newDevice, newServer, isAddingDevice,
                   slotVars, remote, inflight>>

handleDeviceInputChange(name, value) ==
    /\ lifecycle = "mounted"
    /\ isAddingDevice
    /\ newDevice[name] # value
    /\ newDevice' = [newDevice EXCEPT ![name] = value]
    /\ lastEvent' = Event("change", "addDevice", null, TRUE)
    /\ UNCHANGED <<lifecycle, snapVars, uiVars, newServer, isAddingDevice, isAddingServer,
                   slotVars, remote, inflight>>

handleServerInputChange(name, value) ==
    /\ lifecycle = "mounted"
    /\ isAddingServer
    /\ newServer[name] # value
    /\ newServer' = [newServer EXCEPT ![name] = value]
    /\ lastEvent' = Event("change", "addServer", null, TRUE)
    /\ UNCHANGED <<lifecycle, snapVars, uiVars, newDevice, isAddingDevice, isAddingServer,
                   slotVars, remote, inflight>>

\* The body of POST /servers: the form with port and max_devices parsed.
ServerBody(form) ==
    [name |-> form.name, host |-> form.host,
     port |-> ParseInt(form.port), max_devices |-> ParseInt(form.max_devices)]

\* The Add Device submit button: the browser validates the form, and only a
\* valid one gets its submit event, that is addDevice up to its await.
addDevice ==
    /\ lifecycle = "mounted"
    /\ isAddingDevice
    /\ IF DeviceFormValid(newDevice)
       THEN /\ Len(inflight) < MaxInFlight
            /\ inflight' = Append(inflight,
                                  Request("POST /devices", "addDevice", null, Some(newDevice)))
            /\ lastEvent' = Event("submit", "addDevice", null, TRUE)
       ELSE /\ inflight' = inflight
            /\ lastEvent' = Event("submit", "addDevice", null, FALSE)
    /\ UNCHANGED <<lifecycle, snapVars, uiVars, formVars, slotVars, remote>>

\* addDeviceOk, were the form closed without its fields being reset.
addDeviceOk_NoReset(i) ==
    /\ inflight[i].owner = "addDevice"
    /\ inflight[i].kind # GetStatus
    /\ isAddingDevice' = SetState(isAddingDevice, FALSE)
    /\ newDevice' = newDevice
    /\ inflight' = Refetch(i, None)
    /\ lastEvent' = Event("postOk", "addDevice", null, TRUE)
    /\ UNCHANGED <<lifecycle, snapVars, uiVars, newServer, isAddingServer, slotVars, remote>>

\* The POST of addDevice succeeded (lines 177-186).
addDeviceOk(i) ==
    /\ inflight[i].owner = "addDevice"
    /\ inflight[i].kind # GetStatus
    /\ isAddingDevice' = SetState(isAddingDevice, FALSE)
    /\ newDevice' = SetState(newDevice, DefaultDevice)
    /\ inflight' = Refetch(i, None)
    /\ lastEvent' = Event("postOk", "addDevice", null, TRUE)
    /\ UNCHANGED <<lifecycle, snapVars, uiVars, newServer, isAddingServer, slotVars, remote>>

\* The Add Server submit button.
addServer ==
    /\ lifecycle = "mounted"
    /\ isAddingServer
    /\ IF ServerFormValid(newServer)
       THEN /\ Len(inflight) < MaxInFlight
            /\ inflight' = Append(inflight,
                                  Request("POST /servers", "addServer", null,
                                          Some(ServerBody(newServer))))
            /\ lastEvent' = Event("submit", "addServer", null, TRUE)
       ELSE /\ inflight' = inflight
            /\ lastEvent' = Event("submit", "addServer", null, FALSE)
    /\ UNCHANGED <<lifecycle, snapVars, uiVars, formVars, slotVars, remote>>

addServerOk(i) ==
    /\ inflight[i].owner = "addServer"
    /\ inflight[i].kind # GetStatus
    /\ isAddingServer' = SetState(isAddingServer, FALSE)
    /\ newServer' = SetState(newServer, DefaultServer)
    /\ inflight' = Refetch(i, None)
    /\ lastEvent' = Event("postOk", "addServer", null, TRUE)
    /\ UNCHANGED <<lifecycle, snapVars, uiVars, newDevice, isAddingDevice, slotVars, remote>>

Forms ==
    \/ \E b \in BOOLEAN : setIsAddingDevice(b)
    \/ \E b \in BOOLEAN : setIsAddingServer(b)
    \/ \E n \in DeviceTextFields, v \in TextValues : handleDeviceInputChange(n, v)
    \/ \E v \in Platforms : handleDeviceInputChange("platformName", v)
    \/ \E v \in Automations : handleDeviceInputChange("automationName", v)
    \/ \E n \in {"name", "host"}, v \in TextValues : handleServerInputChange(n, v)
    \/ \E n \in {"port", "max_devices"}, t \in Typed :
            handleServerInputChange(n, NumberInputValue(t))
    \/ addDevice
    \/ addServer
    \/ \E i \in DOMAIN inflight : addDeviceOk(i)
    \/ \E i \in DOMAIN inflight : addServerOk(i)

(***************************************************************************)
(* The UI toggles and the two dismiss buttons.                             *)
(***************************************************************************)
toggleShowOnlyRealDevices ==
    /\ lifecycle = "mounted"
    /\ showOnlyRealDevices' = ~showOnlyRealDevices
    /\ lastEvent' = Event("toggleShowOnlyRealDevices", "", null, TRUE)
    /\ UNCHANGED <<lifecycle, snapVars, expandedServers, formVars, slotVars, remote, inflight>>

\* The expand button of a server card; the cards are on screen while the
\* add-server form is closed (lines 404, 455-521).
toggleServerExpansion(serverId) ==
    /\ lifecycle = "mounted"
    /\ ~isAddingServer
    /\ serverId \in Keys(servers)
    /\ expandedServers' = IF serverId \in expandedServers
                          THEN expandedServers \ {serverId}
                          ELSE expandedServers \cup {serverId}
    /\ lastEvent' = Event("toggleServerExpansion", "", null, TRUE)
    /\ UNCHANGED <<lifecycle, snapVars, showOnlyRealDevices, formVars, slotVars, remote,
                   inflight>>

\* dismissError, were the button to close the task result as well.
dismissError_Both ==
    /\ lifecycle = "mounted"
    /\ Truthy(error)
    /\ error' = null
    /\ taskResult' = None
    /\ lastEvent' = Event("dismissError", "", null, TRUE)
    /\ UNCHANGED <<lifecycle, snapVars, uiVars, formVars, remote, inflight>>

\* The Dismiss button of the error banner (lines 381-386).
dismissError ==
    /\ lifecycle = "mounted"
    /\ Truthy(error)
    /\ error' = null
    /\ lastEvent' = Event("dismissError", "", null, TRUE)
    /\ UNCHANGED <<lifecycle, snapVars, uiVars, formVars, taskResult, remote, inflight>>

\* The close button of the Last Task Result section (lines 685-690).
dismissTaskResult ==
    /\ lifecycle = "mounted"
    /\ taskResult # None
    /\ taskResult' = None
    /\ lastEvent' = Event("dismissTaskResult", "", null, TRUE)
    /\ UNCHANGED <<lifecycle, snapVars, uiVars, formVars, error, remote, inflight>>

Toggles ==
    \/ toggleShowOnlyRealDevices
    \/ \E sv \in ServerIds : toggleServerExpansion(sv)

Poller ==
    \/ Mount
    \/ Unmount
    \/ Tick
    \/ \E i \in DOMAIN inflight : FetchStatusOk(i)
    \/ \E i \in DOMAIN inflight, f \in Failures : FetchStatusFail(i, f)

Service ==
    \/ \E s \in Snapshots : RemoteChange(s)
    \/ \E i \in DOMAIN inflight : ServerReply(i)

NextPoll == Poller \/ Service
SpecPoll == Init /\ [][NextPoll]_vars

Commands ==
    \/ initializeSystem
    \/ \E d \in DeviceIds : initializeDevice(d)
    \/ \E t \in 1..MaxDevices : stopTask(t)
    \/ refreshDevices
    \/ \E d \in DeviceIds : executeSetupDeviceTask(d)
    \/ \E i \in DOMAIN inflight : PlainCommandOk(i)
    \/ \E i \in DOMAIN inflight, f \in Failures : CommandFail(i, f)
    \/ \E i \in DOMAIN inflight, data \in RefreshBodies : refreshDevicesOk(i, data)
    \/ \E i \in DOMAIN inflight, data \in SetupBodies : executeSetupDeviceTaskOk(i, data)
    \/ \E i \in DOMAIN inflight, f \in Failures : executeSetupDeviceTaskFail(i, f)

\* The whole dashboard against the whole environment.
Next == Poller \/ Service \/ Commands \/ Forms \/ Toggles \/ dismissError \/ dismissTaskResult
Spec == Init /\ [][Next]_vars

\* The command dispatcher (SpecCmd): the poller, a service that stays as it
\* is, and a user who fills each form from its first field to
\* its last and who does one thing at a time: a command is started only with
\* both banners dismissed and no other command under way, a form is opened only
\* with the other one closed.
DeviceFieldOrder == <<"name", "udid", "platformVersion", "deviceName">>
BannersClear ==
    /\ error = null
    /\ taskResult = None
    /\ \A i \in DOMAIN inflight : inflight[i].owner = "poll"
FormsClosed == ~isAddingDevice /\ ~isAddingServer

InitCmd == Constructed /\ remote = SnapD

NextCmd ==
    \/ Mount
    \/ Unmount
    \/ Tick
    \/ \E i \in DOMAIN inflight : ServerReply(i)
    \/ \E i \in DOMAIN inflight : FetchStatusOk(i)
    \/ \E i \in DOMAIN inflight, f \in Failures : FetchStatusFail(i, f)
    \/ dismissError
    \/ dismissTaskResult
    \/ BannersClear /\ FormsClosed /\ initializeSystem
    \/ BannersClear /\ FormsClosed /\ \E d \in DeviceIds : initializeDevice(d)
    \/ BannersClear /\ FormsClosed /\ \E t \in 1..MaxDevices : stopTask(t)
    \/ BannersClear /\ FormsClosed /\ refreshDevices
    \/ BannersClear /\ FormsClosed /\ \E d \in DeviceIds : executeSetupDeviceTask(d)
    \/ BannersClear /\ addDevice
    \/ BannersClear /\ addServer
    \/ \E i \in DOMAIN inflight : PlainCommandOk(i)
    \/ \E i \in DOMAIN inflight, f \in Failures : CommandFail(i, f)
    \/ \E i \in DOMAIN inflight, data \in RefreshBodies : refreshDevicesOk(i, data)
    \/ \E i \in DOMAIN inflight, data \in SetupBodies : executeSetupDeviceTaskOk(i, data)
    \/ \E i \in DOMAIN inflight, f \in Failures : executeSetupDeviceTaskFail(i, f)
    \/ \E i \in DOMAIN inflight : addDeviceOk(i)
    \/ \E i \in DOMAIN inflight : addServerOk(i)
    \/ BannersClear /\ FormsClosed /\ setIsAddingDevice(TRUE)
    \/ BannersClear /\ FormsClosed /\ setIsAddingServer(TRUE)
    \/ \E k \in DOMAIN DeviceFieldOrder :
            /\ \A j \in 1..(k - 1) : newDevice[DeviceFieldOrder[j]] # ""
            /\ handleDeviceInputChange(DeviceFieldOrder[k], "x")
    \/ handleServerInputChange("name", "x")
    \/ newServer.name # "" /\ handleServerInputChange("port", NumberInputValue(<<"4">>))

SpecCmd == InitCmd /\ [][NextCmd]_vars

(***************************************************************************)
(* The poller's properties (SpecPoll).                                     *)
(***************************************************************************)
\* The response a fetchOk step applies: request i of the state before it.
Applied(i) ==
    /\ i \in DOMAIN inflight
    /\ inflight[i].kind = GetStatus
    /\ inflight[i].resp # None
    /\ inflight' = Overtake(inflight, i)

C3_WholeReplacement ==
    [][(lastEvent'.type = "fetchOk" /\ lifecycle = "mounted") =>
        \E i \in DOMAIN inflight :
            /\ Applied(i)
            /\ StoreView' = ApplySnapshot(InitialView, inflight[i].resp[1])
            /\ Keys(devices') \subseteq Keys(OrEmpty(inflight[i].resp[1].devices))
            /\ Keys(servers') \subseteq Keys(OrEmpty(inflight[i].resp[1].servers))
            /\ Keys(tasks') \subseteq Keys(OrEmpty(inflight[i].resp[1].tasks))
            /\ \A s \in DOMAIN serverDevices' : \A k \in DOMAIN serverDevices'[s] :
                    serverDevices'[s][k] \in Keys(devices')]_vars

\* A snapshot has just replaced one that held a device it does not hold.
C3_Witness ==
    /\ lifecycle = "mounted"
    /\ lastEvent.type = "fetchOk"
    /\ lastEvent.prev \ Keys(devices) # {}

\* C4: a tick issues a GET /status whether or not one is in flight, and the
\* store takes the snapshot of each response as it arrives, also of one whose
\* request was issued before that of a response applied earlier.
C4_TicksOverlapLastArrivedWins ==
    [][/\ (lifecycle = "mounted" /\ Len(inflight) < MaxInFlight) => ENABLED Tick
       /\ lastEvent'.type = "tick" => NumGets(inflight') = NumGets(inflight) + 1
       /\ (lastEvent'.type = "fetchOk" /\ lifecycle = "mounted") =>
            \E i \in DOMAIN inflight :
                /\ Applied(i)
                /\ lastEvent'.late = inflight[i].late
                /\ status' = inflight[i].resp[1].status
                /\ devices' = OrEmpty(inflight[i].resp[1].devices)
                /\ tasks' = OrEmpty(inflight[i].resp[1].tasks)]_vars

\* The response of an overtaken request has arrived last and changed the store.
C4_Witness ==
    /\ lifecycle = "mounted"
    /\ lastEvent.type = "fetchOk"
    /\ lastEvent.late
    /\ lastEvent.prev # Keys(devices)

(***************************************************************************)
(* Eventual consistency (SpecLive): the poller and the initialize command  *)
(* under the fairness that the 5 s timer, an answering service and a       *)
(* network that settles every request give.  A failure is never forced.    *)
(***************************************************************************)
\* The one way a request fails in SpecLive: no response at all.
NetworkError == CHOOSE f \in Failures : f.error = null

NextLive ==
    \/ Mount
    \/ Unmount
    \/ Tick
    \/ \E i \in DOMAIN inflight : FetchStatusOk(i)
    \/ \E i \in DOMAIN inflight : FetchStatusFail(i, NetworkError)
    \/ Service
    \/ initializeSystem
    \/ \E i \in DOMAIN inflight : PlainCommandOk(i)
    \/ \E i \in DOMAIN inflight : CommandFail(i, NetworkError)

\* The timer of a mounted dashboard fires every 5 s whatever is in flight; the
\* cap on the requests in flight only postpones a tick, hence the strong
\* fairness of Tick.
SpecLive ==
    /\ Init
    /\ [][NextLive]_vars
    /\ WF_vars(Mount)
    /\ SF_vars(Tick)
    /\ WF_vars(\E i \in DOMAIN inflight : ServerReply(i))
    /\ WF_vars(\E i \in DOMAIN inflight : FetchStatusOk(i))
    /\ WF_vars(\E i \in DOMAIN inflight :
                    PlainCommandOk(i) \/ CommandFail(i, NetworkError))

\* From some point on the fleet state does not change and no fetch fails.
Stable == lastEvent.type \notin {"remoteChange", "fetchFail"}
\* From some point on the user does not click Initialize System either.
Quiescent == lastEvent.type \notin {"remoteChange", "fetchFail", "click"}

\* The store shows what GET /status would answer now.
InSync == StoreView = ApplySnapshot(InitialView, remote)

\* C5 as claimed: if from some point on the fleet state stops changing and
\* fetches succeed, then the store of a mounted dashboard eventually equals the
\* fleet state and stays equal to it.
C5_Original ==
    <>[]Stable => <>[](lifecycle = "mounted" => InSync)

\* C5 as amended: the same, provided that from some point on no Initialize
\* System command is issued either (its click writes status 'initializing').
C5_EventuallyConsistent ==
    <>[]Quiescent => <>[](lifecycle = "mounted" => InSync)

\* The response of an overtaken request has arrived late and left the store
\* behind the fleet state.
C5_Witness ==
    /\ lifecycle = "mounted"
    /\ lastEvent.type = "fetchOk"
    /\ lastEvent.late
    /\ ~InSync

(***************************************************************************)
(* The derived views (SpecView): the dashboard mounted against a service   *)
(* that holds any one snapshot of AllSnapshots.                            *)
(***************************************************************************)
InitView == Constructed /\ remote \in AllSnapshots

NextView ==
    \/ Mount
    \/ \E i \in DOMAIN inflight : ServerReply(i)
    \/ \E i \in DOMAIN inflight : FetchStatusOk(i)
    \/ Toggles

SpecView == InitView /\ [][NextView]_vars

\* The number of times id occurs in a list of ids.
Occurrences(ids, id) == Cardinality({k \in DOMAIN ids : ids[k] = id})
\* The buckets in which a device id occurs.
BucketsOf(id) == {s \in DOMAIN serverDevices : Occurrences(serverDevices[s], id) > 0}

\* C6 as claimed: the grouping built from a snapshot holds exactly the devices
\* whose server id is non-null and is the id of a server of the snapshot, each
\* once in its own server's bucket; every other device is in no bucket.
C6_Original ==
    lastEvent.type = "fetchOk" =>
        \A i \in DOMAIN devices :
            IF devices[i].server # null /\ devices[i].server \in Keys(servers)
            THEN /\ BucketsOf(devices[i].id) = {devices[i].server}
                 /\ Occurrences(serverDevices[devices[i].server], devices[i].id) = 1
            ELSE BucketsOf(devices[i].id) = {}

\* C6 as amended: the grouping holds exactly the devices whose server id is
\* neither null nor empty, each once in the bucket of its server id, whether or
\* not the snapshot has a server of that id; a device with a null or empty
\* server id is in no bucket, and no bucket holds anything but such devices.
C6_GroupingByServerId ==
    lastEvent.type = "fetchOk" =>
        /\ \A i \in DOMAIN devices :
            IF Truthy(devices[i].server)
            THEN /\ BucketsOf(devices[i].id) = {devices[i].server}
                 /\ Occurrences(serverDevices[devices[i].server], devices[i].id) = 1
            ELSE BucketsOf(devices[i].id) = {}
        /\ \A s \in DOMAIN serverDevices : \A k \in DOMAIN serverDevices[s] :
                /\ serverDevices[s][k] \in Keys(devices)
                /\ Lookup(devices, serverDevices[s][k]).server = s

\* Two devices share a bucket whose server the snapshot does not have.
C6_Witness ==
    /\ lastEvent.type = "fetchOk"
    /\ \E s \in DOMAIN serverDevices :
            /\ s \notin Keys(servers)
            /\ Len(serverDevices[s]) = 2
    /\ Keys(servers) # {}

\* C7: with simulators excluded the filtered devices are among those with
\* simulators included and none of them is a simulator; with simulators
\* included the filter returns the device mapping itself.
C7_FilterDevices ==
    LET real == getFilteredDevices(devices, TRUE)
        all == getFilteredDevices(devices, FALSE)
    IN  /\ Keys(real) \subseteq Keys(all)
        /\ \A i \in DOMAIN real : real[i].is_simulator = FALSE
        /\ \A i \in DOMAIN real : real[i] = Lookup(devices, real[i].id)
        /\ all = devices

\* The store holds a simulator and a real device, and the filter is off.
C7_Witness ==
    /\ ~showOnlyRealDevices
    /\ \E i, j \in DOMAIN devices : devices[i].is_simulator /\ ~devices[j].is_simulator
    /\ Len(getFilteredDevices(devices, TRUE)) = 1

(***************************************************************************)
(* The add-device form (SpecDeviceForm) and the add-server form            *)
(* (SpecServerForm), each with the fetches its command issues.             *)
(***************************************************************************)
FormFetches ==
    \/ Mount
    \/ \E i \in DOMAIN inflight : ServerReply(i)
    \/ \E i \in DOMAIN inflight : FetchStatusOk(i)
    \/ \E i \in DOMAIN inflight, f \in Failures : CommandFail(i, f)

NextDeviceForm ==
    \/ FormFetches
    \/ \E b \in BOOLEAN : setIsAddingDevice(b)
    \/ \E n \in DeviceTextFields, v \in TextValues : handleDeviceInputChange(n, v)
    \/ \E v \in Platforms : handleDeviceInputChange("platformName", v)
    \/ \E v \in Automations : handleDeviceInputChange("automationName", v)
    \/ addDevice
    \/ \E i \in DOMAIN inflight : addDeviceOk(i)

SpecDeviceForm == Init /\ [][NextDeviceForm]_vars

\* The server form's user submits when no request is pending.
NextServerForm ==
    \/ FormFetches
    \/ \E b \in BOOLEAN : setIsAddingServer(b)
    \/ \E n \in {"name", "host"}, v \in TextValues : handleServerInputChange(n, v)
    \/ \E n \in {"port", "max_devices"}, t \in Typed :
            handleServerInputChange(n, NumberInputValue(t))
    \/ (inflight = <<>> /\ addServer)
    \/ \E i \in DOMAIN inflight : addServerOk(i)

SpecServerForm == Init /\ [][NextServerForm]_vars

RequiredDeviceFields ==
    {"name", "udid", "platformName", "platformVersion", "deviceName", "automationName"}

\* C8: submitting the add-device form while its name, or any other required
\* field, is empty sends nothing, and no POST /devices with an empty required
\* field is ever in flight.
C8_EmptyFieldSendsNothing ==
    [][/\ (/\ lastEvent'.type = "submit"
           /\ lastEvent'.cmd = "addDevice"
           /\ \E n \in RequiredDeviceFields : newDevice[n] = "")
          => inflight' = inflight
       /\ \A i \in DOMAIN inflight' :
            inflight'[i].kind = "POST /devices" =>
                \A n \in RequiredDeviceFields : inflight'[i].body[1][n] # ""]_vars

\* The form was submitted with every required field filled in but the name, and
\* nothing is in flight.
C8_Witness ==
    /\ lastEvent.type = "submit"
    /\ lastEvent.cmd = "addDevice"
    /\ newDevice.name = ""
    /\ \A n \in RequiredDeviceFields \ {"name"} : newDevice[n] # ""
    /\ inflight = <<>>

\* C9: submitting the add-server form while its port or max-devices value does
\* not parse as an integer is refused by the form's validation and sends
\* nothing, and no POST /servers whose port or max_devices is not an integer is
\* ever in flight.
C9_NonNumericPortSendsNothing ==
    [][/\ (/\ lastEvent'.type = "submit"
           /\ lastEvent'.cmd = "addServer"
           /\ (ParseInt(newServer.port) = None \/ ParseInt(newServer.max_devices) = None))
          => (inflight' = inflight /\ ~lastEvent'.ok /\ UNCHANGED <<formVars, slotVars>>)
       /\ \A i \in DOMAIN inflight' :
            inflight'[i].kind = "POST /servers" =>
                /\ inflight'[i].body[1].port # None
                /\ inflight'[i].body[1].max_devices # None]_vars

\* The form was submitted with a name and a host but a port that is no number,
\* and nothing is in flight.
C9_Witness ==
    /\ lastEvent.type = "submit"
    /\ lastEvent.cmd = "addServer"
    /\ ~lastEvent.ok
    /\ newServer.name # ""
    /\ newServer.host # ""
    /\ ParseInt(newServer.port) = None
    /\ ParseInt(newServer.max_devices) = Some(5)
    /\ inflight = <<>>

(***************************************************************************)
(* The commands' properties (SpecCmd).                                     *)
(***************************************************************************)
\* The POST of a command has just been answered and its handler has gone on
\* to `await fetchStatus()`.
Refetched ==
    /\ NumGets(inflight') = NumGets(inflight) + 1
    /\ inflight'[Len(inflight')] = StatusRequest(lastEvent'.cmd, lastEvent'.dev)
        \/ (/\ lastEvent'.cmd = "executeSetupDeviceTask"
            /\ inflight'[Len(inflight')] =
                [StatusRequest(lastEvent'.cmd, lastEvent'.dev) EXCEPT !.wrote = lastEvent'.wrote])

\* C1 as claimed: whenever the request of a command has completed, succeeded
\* or failed, a GET /status of that command is in flight.
C1_Original ==
    lastEvent.type \in {"postOk", "postFail"} =>
        \E i \in DOMAIN inflight :
            /\ inflight[i].kind = GetStatus
            /\ inflight[i].owner = lastEvent.cmd

\* C1 as amended: when the request of a command has succeeded (and, for
\* refreshDevices, the answer says success) the handler issues a GET /status;
\* when the request has failed, or the refresh answer says no success, the
\* handler writes the error slot and issues no request.
C1_RefetchOnSuccessOnly ==
    [][/\ (/\ lastEvent'.type = "postOk"
           /\ (lastEvent'.cmd = "refreshDevices" => lastEvent'.ok))
          => Refetched
       /\ (\/ lastEvent'.type = "postFail"
           \/ (/\ lastEvent'.type = "postOk"
               /\ lastEvent'.cmd = "refreshDevices"
               /\ ~lastEvent'.ok))
          => /\ NumGets(inflight') = NumGets(inflight)
             /\ Len(inflight') = Len(inflight) - 1
             /\ lifecycle = "mounted" => Truthy(error')]_vars

\* The request of a command has failed, its error is shown, and nothing is in
\* flight.
C1_Witness ==
    /\ lastEvent.type = "postFail"
    /\ lifecycle = "mounted"
    /\ Truthy(error)
    /\ inflight = <<>>

\* C10: when executeSetupDeviceTask has finished, by its catch block or by the
\* end of its re-fetch, it has written a record of its device and of task
\* 'setup_device' to the task-result slot; the catch block's record has
\* success false and the error message, and each write is what the slot holds
\* right after it.
C10_SetupAlwaysRecords ==
    lastEvent.cmd = "executeSetupDeviceTask" =>
        /\ lastEvent.type \in {"fetchOk", "fetchFail", "postFail", "postOk"} =>
            /\ lastEvent.wrote # None
            /\ lastEvent.wrote[1].device = lastEvent.dev
            /\ lastEvent.wrote[1].task = "setup_device"
        /\ lastEvent.type = "postFail" =>
            /\ lastEvent.wrote[1].result.success = FALSE
            /\ Truthy(lastEvent.wrote[1].result.error)
            /\ lifecycle = "mounted" =>
                error = "Error executing setup task for " \o lastEvent.dev \o ": "
                            \o lastEvent.wrote[1].result.error
        /\ (lastEvent.type \in {"postFail", "postOk"} /\ lifecycle = "mounted") =>
            taskResult = lastEvent.wrote

\* The setup request has failed and the slot holds the record of the failure.
C10_Witness ==
    /\ lastEvent.cmd = "executeSetupDeviceTask"
    /\ lastEvent.type = "postFail"
    /\ taskResult # None
    /\ taskResult[1].device = "dev1"
    /\ taskResult[1].result.success = FALSE
    /\ taskResult[1].result.error = "Network Error"

(***************************************************************************)
(* The two slots (SpecSlots): the commands that write them, the fetches,   *)
(* and the two dismiss buttons, pressed at any time.                       *)
(***************************************************************************)
NextSlots ==
    \/ Mount
    \/ \E i \in DOMAIN inflight : ServerReply(i)
    \/ \E i \in DOMAIN inflight : FetchStatusOk(i)
    \/ \E i \in DOMAIN inflight : FetchStatusFail(i, NetworkError)
    \/ dismissError
    \/ dismissTaskResult
    \/ refreshDevices
    \/ \E d \in DeviceIds : executeSetupDeviceTask(d)
    \/ \E i \in DOMAIN inflight, f \in Failures : CommandFail(i, f)
    \/ \E i \in DOMAIN inflight, data \in RefreshBodies : refreshDevicesOk(i, data)
    \/ \E i \in DOMAIN inflight, data \in SetupBodies : executeSetupDeviceTaskOk(i, data)
    \/ \E i \in DOMAIN inflight, f \in Failures : executeSetupDeviceTaskFail(i, f)

SpecSlots == InitCmd /\ [][NextSlots]_vars

\* C11 as claimed: no step changes both the error slot and the task-result
\* slot.
C11_Original ==
    [][error' # error => taskResult' = taskResult]_vars

\* C11 as amended: a step that changes both slots is a step of
\* executeSetupDeviceTask (its start, which clears both, or its continuation
\* after a failed or a success=false request, which writes both); a fetch, the
\* Dismiss button and every other command leave the task-result slot alone, and
\* the close button of the task result leaves the error slot alone.
C11_SlotsIndependentButSetup ==
    [][/\ (error' # error /\ taskResult' # taskResult) =>
            /\ lastEvent'.cmd = "executeSetupDeviceTask"
            /\ lastEvent'.type \in {"click", "postOk", "postFail"}
       /\ lastEvent'.type \in {"fetchOk", "fetchFail", "dismissError"} =>
            taskResult' = taskResult
       /\ lastEvent'.cmd \in {"refreshDevices", "initializeSystem", "initializeDevice",
                              "stopTask", "addDevice", "addServer"} =>
            taskResult' = taskResult
       /\ lastEvent'.type = "dismissTaskResult" => error' = error]_vars

\* A fetch has failed and written the error slot while a task result was
\* shown, and the task result is still there.
C11_Witness ==
    /\ lastEvent.type = "fetchFail"
    /\ Truthy(error)
    /\ taskResult # None

(***************************************************************************)
(* The system status (SpecCmd, SpecLive).                                  *)
(***************************************************************************)
\* C12: when the request of initializeSystem has failed, an error is shown and
\* the status is the one known before the command was issued, 'not_initialized'
\* (the button is offered in no other status), not 'initializing'.
C12_Original ==
    (/\ lastEvent.type = "postFail"
     /\ lastEvent.cmd = "initializeSystem"
     /\ lifecycle = "mounted")
    => (Truthy(error) /\ status = "not_initialized")

\* initializeSystem has just written 'initializing'.
InitializingEntered ==
    /\ lifecycle = "mounted"
    /\ lastEvent.type = "click"
    /\ lastEvent.cmd = "initializeSystem"
    /\ status = "initializing"
\* fetchStatus has just applied a response.
SnapshotApplied == lastEvent.type = "fetchOk"
\* A step of fetchStatus's try block leaves the status its response reports.
StatusFromSnapshot ==
    (lastEvent'.type = "fetchOk" /\ lifecycle = "mounted") =>
        \E i \in DOMAIN inflight : Applied(i) /\ status' = inflight[i].resp[1].status

C14_NotInitializedOnlyFromSnapshot ==
    [][(status' = "not_initialized" /\ status # "not_initialized") =>
            /\ lastEvent'.type = "fetchOk"
            /\ \E i \in DOMAIN inflight :
                    Applied(i) /\ inflight[i].resp[1].status = "not_initialized"]_vars

\* A snapshot has taken a store that held devices to 'not_initialized'.
C14_Witness ==
    /\ lastEvent.type = "fetchOk"
    /\ lastEvent.prev # {}
    /\ status = "not_initialized"
    /\ devices = <<>>

\* C15 as claimed: the status is always one of not_initialized, initializing,
\* running (so it is not_initialized at the start).
C15_Original ==
    status \in {"not_initialized", "initializing", "running"}

\* C15 as amended: the status is always one of loading, not_initialized,
\* initializing, running (the service reporting only the last three); it is
\* 'loading' at the start and stays so until a snapshot is applied.
C15_StatusValues ==
    /\ status = "loading"
    /\ [](status \in {"loading", "not_initialized", "initializing", "running"})
    /\ [][(status = "loading" /\ status' # "loading") => lastEvent'.type = "fetchOk"]_vars

\* The first fetch has failed and the mounted dashboard still shows 'loading'.
C15_Witness ==
    /\ lifecycle = "mounted"
    /\ lastEvent.type = "fetchFail"
    /\ status = "loading"

\* The timer has just fired and issued a fetch.
FetchIssued ==
    /\ lastEvent.type = "tick"
    /\ inflight # <<>>
    /\ inflight[Len(inflight)] = StatusRequest("poll", null)

\* C16: a failed fetch leaves its error in the error slot of the mounted
\* dashboard, no failure of a fetch or of a command tears the poller down, and
\* after any such failure the timer fires again and issues a further fetch
\* (unless the dashboard is torn down first).
C16_FailureKeepsPolling ==
    /\ []((lastEvent.type = "fetchFail" /\ lifecycle = "mounted") =>
            error = "Error fetching status: " \o NetworkError.message)
    /\ [][lastEvent'.type \in {"fetchFail", "postFail"} => lifecycle' = lifecycle]_vars
    /\ (lifecycle = "mounted" /\ lastEvent.type \in {"fetchFail", "postFail"})
            ~> (lifecycle = "unmounted" \/ FetchIssued)

\* The timer has fired again while the error of a failed fetch is shown.
C16_Witness ==
    /\ lifecycle = "mounted"
    /\ FetchIssued
    /\ error = "Error fetching status: Network Error"

(***************************************************************************)
(* The banner of the setup task and of refreshDevices (SpecCmd).           *)
(***************************************************************************)
\* The POST of executeSetupDeviceTask has just been answered success=false.
SetupDomainFailure ==
    /\ lastEvent'.type = "postOk"
    /\ lastEvent'.cmd = "executeSetupDeviceTask"
    /\ ~lastEvent'.ok

\* C17 as claimed: a success=false answer to the setup task leaves the error
\* slot as it was.
C17_Original ==
    [][SetupDomainFailure => error' = error]_vars

\* C17 as amended: a success=false answer to the setup task writes the task
\* result, with success false, and writes the error slot too, with 'Error
\* starting setup task for <device>: <the answer's error, or Unknown error>';
\* a success=true answer leaves the error slot as it was.
C17_DomainFailureAlsoBanner ==
    [][/\ (SetupDomainFailure /\ lifecycle = "mounted") =>
            /\ taskResult' # None
            /\ taskResult'[1].device = lastEvent'.dev
            /\ taskResult'[1].result.success = FALSE
            /\ error' = "Error starting setup task for " \o lastEvent'.dev \o ": "
                            \o Or(taskResult'[1].result.error, "Unknown error")
       /\ (/\ lastEvent'.type = "postOk"
           /\ lastEvent'.cmd = "executeSetupDeviceTask"
           /\ lastEvent'.ok) => error' = error]_vars

\* The setup task was answered success=false without an error text: the task
\* result and the banner both show the failure.
C17_Witness ==
    /\ lastEvent.type = "postOk"
    /\ lastEvent.cmd = "executeSetupDeviceTask"
    /\ ~lastEvent.ok
    /\ taskResult # None
    /\ ~taskResult[1].result.success
    /\ error = "Error starting setup task for dev1: Unknown error"

\* C19: when refreshDevices was answered success=true and its re-fetch has
\* been applied, the banner of the mounted dashboard shows the success message
\* with the detected-device count.
C19_Original ==
    (/\ lastEvent.type = "fetchOk"
     /\ lastEvent.cmd = "refreshDevices"
     /\ lifecycle = "mounted")
    => \E data \in RefreshBodies : data.success /\ error = RefreshMessage(data)

(***************************************************************************)
(* The server cards (SpecView).                                            *)
(***************************************************************************)
\* The list a server card gets from getDevicesForServer in this state.
CardDevices(serverId) ==
    getDevicesForServer(serverDevices, devices, showOnlyRealDevices, serverId)
\* The devices of the store that are on serverId and pass the toggle, in the
\* store's order.
RECURSIVE OnServer(_, _, _)
OnServer(devs, serverId, onlyReal) ==
    IF devs = <<>> THEN <<>>
    ELSE IF Head(devs).server = serverId /\ (~onlyReal \/ ~Head(devs).is_simulator)
         THEN <<Head(devs)>> \o OnServer(Tail(devs), serverId, onlyReal)
         ELSE OnServer(Tail(devs), serverId, onlyReal)

\* C18 as claimed: on every server card, in both positions of the toggle, the
\* badge shows the number of devices getDevicesForServer returns.
C18_Original ==
    \A i \in DOMAIN servers :
        DeviceCountBadge(serverDevices, devices, showOnlyRealDevices, servers[i])
            = Len(CardDevices(servers[i].id))

\* C18 as amended: with 'real devices only' on, the badge shows the number of
\* devices getDevicesForServer returns for the server (its real devices); with
\* the filter off it shows the server's self-reported device_count.
C18_BadgeCount ==
    \A i \in DOMAIN servers :
        DeviceCountBadge(serverDevices, devices, showOnlyRealDevices, servers[i])
            = IF showOnlyRealDevices
              THEN Len(OnServer(devices, servers[i].id, TRUE))
              ELSE servers[i].device_count

\* The filter is off and a card's server reports a count that is not the
\* number of devices listed under it.
C18_Witness ==
    /\ lastEvent.type = "toggleShowOnlyRealDevices"
    /\ ~showOnlyRealDevices
    /\ \E i \in DOMAIN servers :
            /\ Len(CardDevices(servers[i].id)) = 2
            /\ servers[i].device_count = 1

\* C20: for every server id, getDevicesForServer returns exactly the devices
\* of the store whose server is that id and that pass the toggle, in the
\* store's order; dev1 real and dev2 simulator on srv1 give [dev1] with 'real
\* devices only' and [dev1, dev2] with the filter off.
C20_DevicesForServer ==
    /\ \A s \in ServerIds :
            CardDevices(s) = OnServer(devices, s, showOnlyRealDevices)
    /\ devices = SnapB.devices[1] =>
            [k \in DOMAIN CardDevices("srv1") |-> CardDevices("srv1")[k].id]
                = IF showOnlyRealDevices THEN <<"dev1">> ELSE <<"dev1", "dev2">>

\* The store holds dev1 real and dev2 simulator on srv1 and the filter has
\* been switched off.
C20_Witness ==
    /\ devices = SnapB.devices[1]
    /\ lastEvent.type = "toggleShowOnlyRealDevices"
    /\ ~showOnlyRealDevices
    /\ Len(CardDevices("srv1")) = 2

(***************************************************************************)
(* The add-forms' effects (SpecCmd).                                       *)
(***************************************************************************)
\* C21: when the request of addDevice or addServer has succeeded, the form's
\* fields are back at their defaults and the form is closed, the other form
\* being left as it was; when it has failed, the error slot holds the
\* command's error and both forms are as they were: open or closed, and with
\* the values entered.
C21_FormEffects ==
    [][lifecycle = "mounted" =>
        /\ (lastEvent'.type = "postOk" /\ lastEvent'.cmd = "addDevice") =>
                /\ newDevice' = DefaultDevice
                /\ ~isAddingDevice'
                /\ UNCHANGED <<newServer, isAddingServer>>
        /\ (lastEvent'.type = "postOk" /\ lastEvent'.cmd = "addServer") =>
                /\ newServer' = DefaultServer
                /\ ~isAddingServer'
                /\ UNCHANGED <<newDevice, isAddingDevice>>
        /\ (lastEvent'.type = "postFail" /\ lastEvent'.cmd \in {"addDevice", "addServer"}) =>
                /\ UNCHANGED formVars
                /\ \E f \in Failures :
                        error' = CatchMessage(lastEvent'.cmd, null, f)]_vars

\* The request of addDevice has failed: the error is shown and the form is
\* still open with the name that was entered.
C21_Witness ==
    /\ lastEvent.type = "postFail"
    /\ lastEvent.cmd = "addDevice"
    /\ isAddingDevice
    /\ DeviceFormValid(newDevice)
    /\ newDevice.name = "x"
    /\ error = "Error adding device: server error"

(***************************************************************************)
(* Failed fetches and the poller's lifetime (SpecCmd).                     *)
(***************************************************************************)
\* The fetches the poller has in flight.
PollGets(reqs) ==
    Cardinality({i \in DOMAIN reqs : reqs[i].kind = GetStatus /\ reqs[i].owner = "poll"})

\* C22: a failed fetch, of the poller or of a command, leaves status, devices,
\* servers, tasks and serverDevices as they were, writes nothing but the error
\* slot (its message, on a mounted dashboard), and issues no request: the
\* failed one leaves and the others stay.
C22_FailedFetchKeepsSnapshot ==
    [][lastEvent'.type = "fetchFail" =>
        /\ UNCHANGED <<snapVars, taskResult, uiVars, formVars, lifecycle>>
        /\ lifecycle = "mounted" =>
                \E f \in Failures : error' = "Error fetching status: " \o f.message
        /\ \E i \in DOMAIN inflight :
                inflight[i].kind = GetStatus /\ inflight' = Without(inflight, i)]_vars

\* The re-fetch of a command has failed: the store still holds the devices of
\* the last snapshot, the error is shown and nothing is in flight.
C22_Witness ==
    /\ lifecycle = "mounted"
    /\ lastEvent.type = "fetchFail"
    /\ lastEvent.cmd # "poll"
    /\ devices # <<>>
    /\ status = "not_initialized"
    /\ error = "Error fetching status: Network Error"
    /\ inflight = <<>>

\* C23: mounting issues exactly one fetch, every tick of the timer issues
\* exactly one, the timer ticks only while the dashboard is mounted, and once
\* it is torn down it stays so and no step issues a fetch of the poller.
C23_PollerLifecycle ==
    [][/\ lastEvent'.type \in {"mount", "tick"} =>
            /\ inflight' = Append(inflight, StatusRequest("poll", null))
            /\ lifecycle' = "mounted"
       /\ lastEvent'.type = "mount" => lifecycle = "created"
       /\ lastEvent'.type \notin {"mount", "tick"} =>
            PollGets(inflight') <= PollGets(inflight)
       /\ lifecycle = "unmounted" =>
            /\ lifecycle' = "unmounted"
            /\ PollGets(inflight') <= PollGets(inflight)]_vars

\* After the teardown a command's request has succeeded and its handler has
\* issued its re-fetch; the poller has nothing in flight.
C23_Witness ==
    /\ lifecycle = "unmounted"
    /\ lastEvent.type = "postOk"
    /\ NumGets(inflight) = 1
    /\ PollGets(inflight) = 0

(***************************************************************************)
(* The grouping and the store (SpecLive), the error slot and the fetches   *)
(* (SpecCmd).                                                              *)
(***************************************************************************)
\* The ids a bucket of serverDevices lists, as a set.
Listed(s) ==
    IF s \in DOMAIN serverDevices
    THEN {serverDevices[s][k] : k \in DOMAIN serverDevices[s]}
    ELSE {}

\* C24: in every state, a device id is listed under a server id s of
\* serverDevices exactly when it is a key of devices whose server field is s,
\* and it is listed there once; serverDevices has no bucket but for the server
\* ids the devices name.
C24_GroupingMatchesDevices ==
    /\ \A s \in ServerIds :
            /\ Listed(s) = {devices[k].id : k \in {j \in DOMAIN devices : devices[j].server = s}}
            /\ \A d \in Listed(s) : Occurrences(serverDevices[s], d) = 1
    /\ DOMAIN serverDevices =
            {devices[k].server : k \in {j \in DOMAIN devices : Truthy(devices[j].server)}}

\* The re-fetch of initializeSystem has replaced the store by a snapshot
\* whose only device is on srv2.
C24_Witness ==
    /\ lastEvent.type = "fetchOk"
    /\ lastEvent.cmd = "initializeSystem"
    /\ lastEvent.prev # {}
    /\ Keys(devices) = {"dev2"}
    /\ DOMAIN serverDevices = {"srv2"}

\* C25: every step in which fetchStatus applies a response on the mounted
\* dashboard leaves the error slot null, whatever it held (the error of a
\* failed command included) and whichever fetch it is: the poller's or a
\* command's, issued before or after the error was written, overtaken or not.
C25_AppliedSnapshotErasesError ==
    [][(lastEvent'.type = "fetchOk" /\ lifecycle = "mounted") => error' = null]_vars

\* The request of the setup task has failed, which wrote the error slot and
\* the task result, and a fetch of the poller applied since has erased the
\* error: the task result alone still tells of the failure.
C25_Witness ==
    /\ lifecycle = "mounted"
    /\ lastEvent.type = "fetchOk"
    /\ lastEvent.cmd = "poll"
    /\ error = null
    /\ taskResult # None
    /\ taskResult[1].result.error = "Network Error"

(***************************************************************************)
(* Frames (SpecFrame): the fetches against the toggles, an open form and a *)
(* task result.                                                            *)
(***************************************************************************)
NextFrame ==
    \/ Mount
    \/ \E i \in DOMAIN inflight : ServerReply(i)
    \/ \E i \in DOMAIN inflight : FetchStatusOk(i)
    \/ \E i \in DOMAIN inflight : FetchStatusFail(i, NetworkError)
    \/ Toggles
    \/ \E d \in DeviceIds : executeSetupDeviceTask(d)
    \/ \E i \in DOMAIN inflight, data \in SetupBodies : executeSetupDeviceTaskOk(i, data)
    \/ \E b \in BOOLEAN : setIsAddingDevice(b)
    \/ \E v \in TextValues : handleDeviceInputChange("name", v)
    \/ setIsAddingServer(TRUE)
    \/ handleServerInputChange("name", "x")

SpecFrame == InitCmd /\ [][NextFrame]_vars

\* C26: a step of fetchStatus after its await, the request having succeeded
\* or failed, leaves the task result, the filter toggle, the expanded servers
\* and both forms as they were; a step of either toggle leaves the snapshot
\* state, the error slot and the task result as they were.
C26_Frames ==
    [][/\ lastEvent'.type \in {"fetchOk", "fetchFail"} =>
            UNCHANGED <<taskResult, showOnlyRealDevices, expandedServers, formVars>>
       /\ lastEvent'.type \in {"toggleShowOnlyRealDevices", "toggleServerExpansion"} =>
            UNCHANGED <<snapVars, error, taskResult>>]_vars

\* A response has been applied while a task result was shown, the filter was
\* off, a server card was expanded and the add-device form was open with a
\* name entered: all of them still are.
C26_Witness ==
    /\ lastEvent.type = "fetchOk"
    /\ taskResult # None
    /\ ~showOnlyRealDevices
    /\ expandedServers = {"srv1"}
    /\ isAddingDevice
    /\ newDevice.name = "x"
====
